---- MODULE Spec2Model ----
\* Model of the connection-and-room coordination layer of the Crate-and-Crypt
\* game server (src/backend/src/main.rs): the Room Registry (SessionState), the
\* Connection Directory (AppState.connections), the per-connection GameSession
\* actors and the broadcast fan-out.
EXTENDS Integers, Sequences, FiniteSets, TLC

\* ---------------------------------------------------------------- bounds
NumConns == 3       \* connections accepted by ws_route during a run
NumPlayers == 3     \* distinct playerId values clients connect with
NumRoomIds == 2     \* size of the modelled id space of create_room
MaxMailbox == 1     \* SendMessage items queued in one actor mailbox
MaxPosition == 0    \* Position payloads are 0..MaxPosition
MaxInFlight == 1    \* PlayerUpdate handlers between their two lock scopes at once
MaxQueued == 2      \* SendMessage items queued in one mailbox where order is observed
MaxHandlers == 2    \* PlayerUpdate handlers under way at once where the locks are observed

\* ------------------------------------------------------ program constants
HEARTBEAT_INTERVAL == 5
CLIENT_TIMEOUT == 10
MinRoomId == 1000

Conns == 1..NumConns
Players == 1..NumPlayers
Positions == 0..MaxPosition

\* Option<T>: None is the empty sequence, Some(x) the one-element sequence.
None == <<>>

Some(x) == <<x>>

IsSome(o) == o # <<>>

Unwrap(o) == o[1]

UnwrapOr(o, d) == IF o = <<>> THEN d ELSE o[1]

\* format!("{:04}", n): the decimal digits of n, zero-padded to four places.
Format04(n) ==
    IF n < 10000
    THEN << (n \div 1000) % 10, (n \div 100) % 10, (n \div 10) % 10, n % 10 >>
    ELSE << n \div 10000, (n \div 1000) % 10, (n \div 100) % 10, (n \div 10) % 10, n % 10 >>

\* rand::thread_rng().gen_range(1000..10000), with the upper end brought down
\* to MinRoomId + NumRoomIds so that the id space can be exhausted.
GenRange == MinRoomId .. (MinRoomId + NumRoomIds - 1)

\* Room ids a client may name in a Join: every id the generator can produce
\* and one string ("0") it never produces.
RequestRoomIds == { Format04(n) : n \in GenRange } \cup { <<0>> }

VARIABLES
    rooms,           \* SessionState.rooms: room id -> member list (GameRoom.players)
    player_to_room,  \* SessionState.player_to_room
    connections,     \* AppState.connections: player id -> session (Addr<GameSession>)
    status,          \* per connection: "none", "active", "stopped"
    id,              \* GameSession.id (0 before the connection exists)
    hb,              \* seconds between GameSession.hb and the latest heartbeat tick
    pc,              \* position of the session's message handler
    cur,             \* locals of a PlayerUpdate handler between its two lock scopes
    mailbox,         \* SendMessage items queued for the actor
    regLock,         \* holder of the AppState.sessions mutex (0 = free)
    ncreated,        \* number of create_room calls that returned
    ev               \* what the latest step received, wrote and sent

vars == << rooms, player_to_room, connections, status, id, hb, pc, cur, mailbox,
           regLock, ncreated, ev >>

\* ------------------------------------------------------------ wire format
\* serde_json::to_string of a GameMessage: {"type": .., "payload": {..}}.
ToJson(m) ==
    [ type |-> m.type, payload |-> [ f \in (DOMAIN m) \ {"type"} |-> m[f] ] ]

\* obj.insert("players_count", json!(player_count)) on the payload object.
WithPlayersCount(json, n) ==
    [ json EXCEPT !.payload =
        [ f \in (DOMAIN json.payload) \cup {"players_count"} |->
            IF f = "players_count" THEN n ELSE json.payload[f] ] ]

TextFrame(json) == [ op |-> "text", body |-> json ]

NoEv == [ conn |-> 0, recv |-> None, out |-> <<>>, sent |-> <<>>,
          room |-> None, created |-> None ]

Event(c, recv, out) == [ NoEv EXCEPT !.conn = c, !.recv = recv, !.out = out ]

\* ---------------------------------------------------------- Room Registry
Contains(s, x) == \E i \in 1..Len(s) : s[i] = x

Retain(s, x) == SelectSeq(s, LAMBDA y : y # x)

\* create_room without the collision check: whatever id is drawn is returned.
create_room_ids_no_retry(rs) == { Format04(n) : n \in GenRange }

\* A create_room that gives up retrying when no id is left and returns the
\* first one again.
create_room_ids_reuse(rs) ==
    IF { Format04(n) : n \in GenRange } \subseteq DOMAIN rs
    THEN { Format04(MinRoomId) }
    ELSE { Format04(n) : n \in GenRange } \ DOMAIN rs

\* The ids create_room can return: the recursion retries while the drawn id is
\* already a key of rooms, so it returns exactly the ids that are not.
create_room_ids(rs) == { Format04(n) : n \in GenRange } \ DOMAIN rs

\* rooms.insert(room_id, GameRoom { players: Vec::new(), .. })
create_room(rs, rid) == [ r \in (DOMAIN rs) \cup {rid} |-> IF r = rid THEN <<>> ELSE rs[r] ]

join_room_ok(rs, rid, p) == rid \in DOMAIN rs /\ ~Contains(rs[rid], p)

join_room_rooms(rs, rid, p) ==
    IF join_room_ok(rs, rid, p) THEN [ rs EXCEPT ![rid] = Append(@, p) ] ELSE rs

join_room_map(rs, p2r, rid, p) ==
    IF join_room_ok(rs, rid, p)
    THEN [ q \in (DOMAIN p2r) \cup {p} |-> IF q = p THEN rid ELSE p2r[q] ]
    ELSE p2r

\* leave_room: drop the reverse mapping and retain the other members of the
\* room it named. No handler in the source calls it.
leave_room_rooms(rs, p2r, p) ==
    IF p \in DOMAIN p2r /\ p2r[p] \in DOMAIN rs
    THEN [ rs EXCEPT ![p2r[p]] = Retain(@, p) ]
    ELSE rs

leave_room_map(p2r, p) == [ q \in (DOMAIN p2r) \ {p} |-> p2r[q] ]

\* A lookup that answers with the first room when the player has none.
get_player_room_or_first(p2r, p) ==
    IF p \in DOMAIN p2r THEN Some(p2r[p]) ELSE Some(Format04(MinRoomId))

get_player_room(p2r, p) == IF p \in DOMAIN p2r THEN Some(p2r[p]) ELSE None

\* ------------------------------------------------------------------- Init
Init ==
    /\ rooms = << >>
    /\ player_to_room = << >>
    /\ connections = << >>
    /\ status = [ c \in Conns |-> "none" ]
    /\ id = [ c \in Conns |-> 0 ]
    /\ hb = [ c \in Conns |-> 0 ]
    /\ pc = [ c \in Conns |-> "idle" ]
    /\ cur = [ c \in Conns |-> None ]
    /\ mailbox = [ c \in Conns |-> <<>> ]
    /\ regLock = 0
    /\ ncreated = 0
    /\ ev = NoEv

Ready(c) == status[c] = "active" /\ pc[c] = "idle"

\* ws_route: build the session, start it, store its address under player_id.
\* Connections are numbered in the order ws_route accepts them.
Connect(c, p) ==
    /\ status[c] = "none"
    /\ \A d \in Conns : d < c => status[d] # "none"
    /\ \A q \in Players : q < p => \E d \in Conns : id[d] = q
    /\ status' = [ status EXCEPT ![c] = "active" ]
    /\ id' = [ id EXCEPT ![c] = p ]
    /\ hb' = [ hb EXCEPT ![c] = 0 ]
    /\ connections' = [ q \in (DOMAIN connections) \cup {p} |->
                          IF q = p THEN c ELSE connections[q] ]
    /\ ev' = Event(c, None, <<>>)
    /\ UNCHANGED << rooms, player_to_room, pc, cur, mailbox, regLock, ncreated >>

\* Actor::stopped: prints, and leaves the registry and the directory alone.
\* A stopped actor's mailbox is closed and what it held is dropped.
Stop(c, frames) ==
    /\ status' = [ status EXCEPT ![c] = "stopped" ]
    /\ mailbox' = [ mailbox EXCEPT ![c] = <<>> ]
    /\ ev' = Event(c, None, frames)
    /\ UNCHANGED << rooms, player_to_room, connections, id, pc, cur, regLock, ncreated >>

\* ws::Message::Close: ctx.close(reason); ctx.stop().
Close(c) ==
    /\ Ready(c)
    /\ Stop(c, << [ op |-> "close" ] >>)
    /\ hb' = [ hb EXCEPT ![c] = 0 ]

\* A heartbeat that already stops when hb is exactly CLIENT_TIMEOUT old.
HeartbeatTick_at_timeout(c) ==
    /\ Ready(c)
    /\ LET elapsed == hb[c] + HEARTBEAT_INTERVAL
       IN  IF elapsed >= CLIENT_TIMEOUT
           THEN /\ Stop(c, <<>>)
                /\ hb' = [ hb EXCEPT ![c] = 0 ]
           ELSE /\ hb' = [ hb EXCEPT ![c] = elapsed ]
                /\ ev' = Event(c, None, << [ op |-> "ping" ] >>)
                /\ UNCHANGED << rooms, player_to_room, connections, status, id, pc,
                                cur, mailbox, regLock, ncreated >>

\* The run_interval closure of heartbeat: HEARTBEAT_INTERVAL seconds after the
\* previous tick, stop when hb is more than CLIENT_TIMEOUT old, else ping.
HeartbeatTick(c) ==
    /\ Ready(c)
    /\ LET elapsed == hb[c] + HEARTBEAT_INTERVAL
       IN  IF elapsed > CLIENT_TIMEOUT
           THEN /\ Stop(c, <<>>)
                /\ hb' = [ hb EXCEPT ![c] = 0 ]
           ELSE /\ hb' = [ hb EXCEPT ![c] = elapsed ]
                /\ ev' = Event(c, None, << [ op |-> "ping" ] >>)
                /\ UNCHANGED << rooms, player_to_room, connections, status, id, pc,
                                cur, mailbox, regLock, ncreated >>

\* ws::Message::Ping: hb = Instant::now(); ctx.pong(&msg).
WsPing(c) ==
    /\ Ready(c)
    /\ hb' = [ hb EXCEPT ![c] = 0 ]
    /\ ev' = Event(c, None, << [ op |-> "pong" ] >>)
    /\ UNCHANGED << rooms, player_to_room, connections, status, id, pc, cur, mailbox,
                    regLock, ncreated >>

\* ws::Message::Pong: hb = Instant::now().
WsPong(c) ==
    /\ Ready(c)
    /\ hb' = [ hb EXCEPT ![c] = 0 ]
    /\ ev' = Event(c, None, <<>>)
    /\ UNCHANGED << rooms, player_to_room, connections, status, id, pc, cur, mailbox,
                    regLock, ncreated >>

\* ------------------------------------------------------------------- Join
JoinMsg(player_id, room_id, create_room_flag) ==
    [ type |-> "Join", player_id |-> player_id, room_id |-> room_id,
      create_room |-> create_room_flag ]

\* A Join whose failed join_room is not followed by the creation of a room.
JoinCreates_no_fallback(rs, me, m) ==
    \/ UnwrapOr(m.create_room, FALSE)
    \/ m.room_id = None

\* A Join that tries the supplied room_id before it looks at create_room.
JoinCreates_room_id_first(rs, me, m) ==
    \/ m.room_id = None
    \/ ~join_room_ok(rs, Unwrap(m.room_id), me)

\* True when the Join branch taken calls create_room.
JoinCreates(rs, me, m) ==
    \/ UnwrapOr(m.create_room, FALSE)
    \/ m.room_id = None
    \/ ~join_room_ok(rs, Unwrap(m.room_id), me)

\* The Join reply: the response message serialized, with players_count added.
JoinReply(rs, me, final_room_id) ==
    LET player_count == IF final_room_id \in DOMAIN rs THEN Len(rs[final_room_id]) ELSE 1
    IN  TextFrame(WithPlayersCount(
            ToJson(JoinMsg(Some(me), Some(final_room_id), None)), player_count))

\* GameMessage::Join, one critical section of the sessions mutex from the
\* lock() to the end of the match arm.
Join(c, m) ==
    /\ Ready(c)
    /\ regLock = 0
    /\ LET me == id[c]
       IN  IF JoinCreates(rooms, me, m)
           THEN IF create_room_ids(rooms) = {}
                THEN \* create_room recurses without end, the mutex held
                     /\ pc' = [ pc EXCEPT ![c] = "create_room" ]
                     /\ regLock' = c
                     /\ ev' = Event(c, Some(m), <<>>)
                     /\ UNCHANGED << rooms, player_to_room, ncreated >>
                ELSE \E rid \in create_room_ids(rooms) :
                       LET rs1 == create_room(rooms, rid)
                           rs2 == join_room_rooms(rs1, rid, me)
                       IN  /\ rooms' = rs2
                           /\ player_to_room' = join_room_map(rs1, player_to_room, rid, me)
                           /\ ncreated' = ncreated + 1
                           /\ ev' = [ Event(c, Some(m), << JoinReply(rs2, me, rid) >>)
                                        EXCEPT !.created = Some(rid), !.room = Some(rid) ]
                           /\ UNCHANGED << pc, regLock >>
           ELSE LET rid == Unwrap(m.room_id)
                    rs2 == join_room_rooms(rooms, rid, me)
                IN  /\ rooms' = rs2
                    /\ player_to_room' = join_room_map(rooms, player_to_room, rid, me)
                    /\ ev' = [ Event(c, Some(m), << JoinReply(rs2, me, rid) >>)
                                 EXCEPT !.room = Some(rid) ]
                    /\ UNCHANGED << pc, regLock, ncreated >>
    /\ UNCHANGED << connections, status, id, hb, cur, mailbox >>

JoinInputs ==
    { JoinMsg(None, r, f) : r \in {None} \cup { Some(x) : x \in RequestRoomIds },
                            f \in { None, Some(TRUE), Some(FALSE) } }

\* ----------------------------------------------------------- PlayerUpdate
PlayerUpdateMsg(player_id, position, action) ==
    [ type |-> "PlayerUpdate", player_id |-> player_id, position |-> position,
      action |-> action ]

\* The update forwarded under the player_id the payload claimed.
update_msg_claimed(me, m) == PlayerUpdateMsg(m.player_id, m.position, m.action)

\* The message the handler broadcasts: the inbound position and action under
\* the session's own id.
update_msg(me, m) == PlayerUpdateMsg(me, m.position, m.action)

\* The player ids broadcast_to_room sends to, in member-list order: every
\* member other than the sender that has an address in connections.
RECURSIVE Recipients(_, _, _)
\* A fan-out that gives up at the first member it finds no address for.
Recipients_until_missing(players, me, conns) ==
    LET missing == { i \in 1..Len(players) :
                        players[i] # me /\ players[i] \notin DOMAIN conns }
        upto == IF missing = {} THEN Len(players)
                ELSE (CHOOSE i \in missing : \A j \in missing : i <= j) - 1
    IN  SelectSeq(SubSeq(players, 1, upto), LAMBDA q : q # me)

Recipients(players, me, conns) ==
    IF players = <<>> THEN <<>>
    ELSE LET player_id == Head(players)
             rest == Recipients(Tail(players), me, conns)
         IN  IF player_id # me /\ player_id \in DOMAIN conns
             THEN << player_id >> \o rest
             ELSE rest

\* broadcast_to_room without the player_id != self.id test.
broadcast_to_room_incl_sender(rs, conns, me, room_id, message) ==
    IF room_id \in DOMAIN rs
    THEN LET to == Recipients(rs[room_id], 0, conns)
         IN  [ i \in 1..Len(to) |-> [ to |-> conns[to[i]], msg |-> ToJson(message) ] ]
    ELSE <<>>

\* The do_send calls of one broadcast_to_room, in order.
broadcast_to_room(rs, conns, me, room_id, message) ==
    IF room_id \in DOMAIN rs
    THEN LET to == Recipients(rs[room_id], me, conns)
         IN  [ i \in 1..Len(to) |-> [ to |-> conns[to[i]], msg |-> ToJson(message) ] ]
    ELSE <<>>

\* Addr::do_send: queued in the mailbox of a running actor, dropped when the
\* actor has stopped.
RECURSIVE do_send(_, _, _)
do_send(mb, st, sends) ==
    IF sends = <<>> THEN mb
    ELSE LET s == Head(sends)
             mb1 == IF st[s.to] = "active"
                    THEN [ mb EXCEPT ![s.to] = Append(@, s.msg) ]
                    ELSE mb
         IN  do_send(mb1, st, Tail(sends))

\* A lookup whose MutexGuard is not scoped to the lookup: the sessions mutex
\* is still held when the handler goes on to broadcast_to_room.
PlayerUpdateWithin_guard_kept(c, m, inflight) ==
    /\ Ready(c)
    /\ regLock = 0
    /\ Cardinality({ d \in Conns : pc[d] # "idle" }) < inflight
    /\ LET room_id == get_player_room(player_to_room, id[c])
       IN  IF IsSome(room_id)
           THEN /\ pc' = [ pc EXCEPT ![c] = "update" ]
                /\ cur' = [ cur EXCEPT ![c] = Some([ msg |-> m, room_id |-> Unwrap(room_id) ]) ]
                /\ regLock' = c
           ELSE UNCHANGED << pc, cur, regLock >>
    /\ ev' = Event(c, Some(m), <<>>)
    /\ UNCHANGED << rooms, player_to_room, connections, status, id, hb, mailbox,
                    ncreated >>

\* GameMessage::PlayerUpdate, first lock scope: look up the sender's room.
PlayerUpdateWithin(c, m, inflight) ==
    /\ Ready(c)
    /\ regLock = 0
    /\ Cardinality({ d \in Conns : pc[d] # "idle" }) < inflight
    /\ LET room_id == get_player_room(player_to_room, id[c])
       IN  IF IsSome(room_id)
           THEN /\ pc' = [ pc EXCEPT ![c] = "update" ]
                /\ cur' = [ cur EXCEPT ![c] = Some([ msg |-> m, room_id |-> Unwrap(room_id) ]) ]
           ELSE UNCHANGED << pc, cur >>
    /\ ev' = Event(c, Some(m), <<>>)
    /\ UNCHANGED << rooms, player_to_room, connections, status, id, hb, mailbox,
                    regLock, ncreated >>

PlayerUpdate(c, m) == PlayerUpdateWithin(c, m, MaxInFlight)

\* GameMessage::PlayerUpdate, second lock scope: broadcast_to_room under the
\* sessions mutex and, inside it, the connections mutex.
BroadcastWithin(c, cap) ==
    /\ status[c] = "active"
    /\ pc[c] = "update"
    /\ regLock = 0
    /\ LET l == Unwrap(cur[c])
           sends == broadcast_to_room(rooms, connections, id[c], l.room_id,
                                      update_msg(id[c], l.msg))
       IN  /\ \A i \in 1..Len(sends) : Len(mailbox[sends[i].to]) < cap
           /\ mailbox' = do_send(mailbox, status, sends)
           /\ ev' = [ Event(c, Some(l.msg), <<>>) EXCEPT !.sent = sends,
                                                        !.room = Some(l.room_id) ]
    /\ pc' = [ pc EXCEPT ![c] = "idle" ]
    /\ cur' = [ cur EXCEPT ![c] = None ]
    /\ UNCHANGED << rooms, player_to_room, connections, status, id, hb, regLock,
                    ncreated >>

Broadcast(c) == BroadcastWithin(c, MaxMailbox)

\* A handler that forwards the newest queued item first.
SendMessage_newest_first(c) ==
    /\ Ready(c)
    /\ mailbox[c] # <<>>
    /\ mailbox' = [ mailbox EXCEPT ![c] = SubSeq(@, 1, Len(@) - 1) ]
    /\ ev' = Event(c, None, << TextFrame(mailbox[c][Len(mailbox[c])]) >>)
    /\ UNCHANGED << rooms, player_to_room, connections, status, id, hb, pc, cur,
                    regLock, ncreated >>

\* Handler<SendMessage>::handle: forward the oldest queued item to the socket.
SendMessage(c) ==
    /\ Ready(c)
    /\ mailbox[c] # <<>>
    /\ mailbox' = [ mailbox EXCEPT ![c] = Tail(@) ]
    /\ ev' = Event(c, None, << TextFrame(Head(mailbox[c])) >>)
    /\ UNCHANGED << rooms, player_to_room, connections, status, id, hb, pc, cur,
                    regLock, ncreated >>

\* The player_id a PlayerUpdate payload may claim: the sender's or another.
ClaimedIds(c) == { id[c], (id[c] % NumPlayers) + 1 }

PlayerUpdateInputs(c) ==
    { PlayerUpdateMsg(p, x, None) : p \in ClaimedIds(c), x \in Positions }

\* Join requests of a client that creates a room or names one by its id.
JoinBasicInputs ==
    { JoinMsg(None, None, Some(TRUE)) }
        \cup { JoinMsg(None, Some(Format04(n)), None) : n \in GenRange }

\* A playerId no earlier connection used.
FreshPlayer(c) == c

\* ------------------------------------------------- other text messages
LeaveMsg(player_id) == [ type |-> "Leave", player_id |-> player_id ]

ChatMsg(player_id, text) == [ type |-> "Chat", player_id |-> player_id, text |-> text ]

PingMsg(time) == [ type |-> "Ping", time |-> time ]

PongMsg(time) == [ type |-> "Pong", time |-> time ]

ErrorMsg(message) == [ type |-> "Error", message |-> message ]

WorldUpdateMsg(entities) == [ type |-> "WorldUpdate", entities |-> entities ]

\* The variants of GameMessage and the payload fields that are not Option.
Variants ==
    { "Join", "Leave", "Chat", "PlayerUpdate", "WorldUpdate", "Error", "Ping", "Pong" }

RequiredFields(t) ==
    CASE t = "Join" -> {}
      [] t = "Leave" -> { "player_id" }
      [] t = "Chat" -> { "player_id", "text" }
      [] t = "PlayerUpdate" -> { "player_id", "position" }
      [] t = "WorldUpdate" -> { "entities" }
      [] t = "Error" -> { "message" }
      [] t = "Ping" -> { "time" }
      [] t = "Pong" -> { "time" }

\* serde_json::from_str::<GameMessage> returns Ok: the tag names a variant and
\* the payload has every field of it that is not an Option.
from_str_ok(text) ==
    /\ text.type \in Variants
    /\ RequiredFields(text.type) \subseteq DOMAIN text.payload

\* GameMessage::Leave: println! only.
Leave(c, m) ==
    /\ Ready(c)
    /\ ev' = Event(c, Some(m), <<>>)
    /\ UNCHANGED << rooms, player_to_room, connections, status, id, hb, pc, cur,
                    mailbox, regLock, ncreated >>

\* GameMessage::Chat: the message is serialized back to the sender's socket.
Chat(c, m) ==
    /\ Ready(c)
    /\ ev' = Event(c, Some(m), << TextFrame(ToJson(m)) >>)
    /\ UNCHANGED << rooms, player_to_room, connections, status, id, hb, pc, cur,
                    mailbox, regLock, ncreated >>

\* GameMessage::Ping { time }: reply Pong { time } to the sender.
GamePing(c, m) ==
    /\ Ready(c)
    /\ ev' = Event(c, Some(m), << TextFrame(ToJson(PongMsg(m.time))) >>)
    /\ UNCHANGED << rooms, player_to_room, connections, status, id, hb, pc, cur,
                    mailbox, regLock, ncreated >>

\* The default arm (WorldUpdate, Error, Pong): println! only.
Unhandled(c, m) ==
    /\ Ready(c)
    /\ ev' = Event(c, Some(m), <<>>)
    /\ UNCHANGED << rooms, player_to_room, connections, status, id, hb, pc, cur,
                    mailbox, regLock, ncreated >>

InvalidFormat == "Invalid message format"

\* What the session received when from_str failed: the text itself.
Undecoded(text) == [ type |-> "Text", text |-> text ]

\* A decode failure that is treated as fatal: Error reply, then ctx.stop().
InvalidText_stops(c, text) ==
    /\ Ready(c)
    /\ ~from_str_ok(text)
    /\ status' = [ status EXCEPT ![c] = "stopped" ]
    /\ ev' = Event(c, Some(Undecoded(text)), << TextFrame(ToJson(ErrorMsg(InvalidFormat))) >>)
    /\ UNCHANGED << rooms, player_to_room, connections, id, hb, pc, cur,
                    mailbox, regLock, ncreated >>

\* ws::Message::Text whose from_str fails: one Error frame to the sender.
InvalidText(c, text) ==
    /\ Ready(c)
    /\ ~from_str_ok(text)
    /\ ev' = Event(c, Some(Undecoded(text)), << TextFrame(ToJson(ErrorMsg(InvalidFormat))) >>)
    /\ UNCHANGED << rooms, player_to_room, connections, status, id, hb, pc, cur,
                    mailbox, regLock, ncreated >>

ChatText == "hi"

LeaveInputs(c) == { LeaveMsg(p) : p \in ClaimedIds(c) }

ChatInputs(c) == { ChatMsg(p, ChatText) : p \in ClaimedIds(c) }

PingInputs == { PingMsg(0) }

UnhandledInputs == { WorldUpdateMsg(<<>>), ErrorMsg(ChatText), PongMsg(0) }

\* Texts a client can send: well-formed messages, an unknown tag, and payloads
\* that lack a field the variant requires.
TextInputs ==
    { ToJson(ChatMsg(1, ChatText)),
      ToJson(LeaveMsg(1)),
      [ type |-> "Bogus", payload |-> [ player_id |-> 1 ] ],
      [ type |-> "Chat", payload |-> [ player_id |-> 1 ] ],
      [ type |-> "PlayerUpdate", payload |-> [ player_id |-> 1 ] ] }

\* Connections (also re-connections under a used playerId), closes and Joins.
Next ==
    \/ \E c \in Conns, p \in Players : Connect(c, p)
    \/ \E c \in Conns : Close(c)
    \/ \E c \in Conns, m \in JoinInputs : Join(c, m)

Spec == Init /\ [][Next]_vars

\* Players under distinct ids that join rooms and send position updates.
NextBroadcast ==
    \/ \E c \in Conns : Connect(c, FreshPlayer(c))
    \/ \E c \in Conns : Close(c)
    \/ \E c \in Conns, m \in JoinBasicInputs : Join(c, m)
    \/ \E c \in Conns : \E m \in PlayerUpdateInputs(c) : PlayerUpdate(c, m)
    \/ \E c \in Conns : Broadcast(c)
    \/ \E c \in Conns : SendMessage(c)

SpecBroadcast == Init /\ [][NextBroadcast]_vars
\* Connections that are closed by the peer or time out, and re-connections.
NextHeartbeat ==
    \/ \E c \in Conns, p \in Players : Connect(c, p)
    \/ \E c \in Conns : Close(c)
    \/ \E c \in Conns : HeartbeatTick(c)
    \/ \E c \in Conns : WsPing(c)
    \/ \E c \in Conns : WsPong(c)
    \/ \E c \in Conns, m \in JoinBasicInputs : Join(c, m)

SpecHeartbeat == Init /\ [][NextHeartbeat]_vars


\* Players in rooms that send Leave, Chat, Ping, unhandled and undecodable texts.
NextMessages ==
    \/ \E c \in Conns : Connect(c, FreshPlayer(c))
    \/ \E c \in Conns : Close(c)
    \/ \E c \in Conns, m \in JoinBasicInputs : Join(c, m)
    \/ \E c \in Conns : \E m \in LeaveInputs(c) : Leave(c, m)
    \/ \E c \in Conns : \E m \in ChatInputs(c) : Chat(c, m)
    \/ \E c \in Conns, m \in PingInputs : GamePing(c, m)
    \/ \E c \in Conns, m \in UnhandledInputs : Unhandled(c, m)
    \/ \E c \in Conns, text \in TextInputs : InvalidText(c, text)

SpecMessages == Init /\ [][NextMessages]_vars

\* Member lists: the players of a room in any order of joining.
MemberLists ==
    { s \in UNION { [ 1..n -> Players ] : n \in 1..NumPlayers } :
        \A i, j \in DOMAIN s : s[i] = s[j] => i = j }

\* What broadcast_to_room reads: a room with any member list and a directory
\* that knows any part of the players. Every session is open and idle.
InitFanout ==
    /\ \E players \in MemberLists :
         /\ rooms = [ r \in { Format04(MinRoomId) } |-> players ]
         /\ player_to_room = [ p \in { players[i] : i \in DOMAIN players } |->
                                 Format04(MinRoomId) ]
    /\ \E known \in SUBSET Players : connections = [ p \in known |-> p ]
    /\ status = [ c \in Conns |-> "active" ]
    /\ id = [ c \in Conns |-> c ]
    /\ hb = [ c \in Conns |-> 0 ]
    /\ pc = [ c \in Conns |-> "idle" ]
    /\ cur = [ c \in Conns |-> None ]
    /\ mailbox = [ c \in Conns |-> <<>> ]
    /\ regLock = 0
    /\ ncreated = 1
    /\ ev = NoEv

\* Position updates fanned out over such a room and directory.
NextFanout ==
    \/ \E c \in Conns : \E m \in PlayerUpdateInputs(c) : PlayerUpdate(c, m)
    \/ \E c \in Conns : Broadcast(c)
    \/ \E c \in Conns : SendMessage(c)

SpecFanout == InitFanout /\ [][NextFanout]_vars

\* Updates one sender's recipients can tell apart by their action.
FifoInputs(c) ==
    { PlayerUpdateMsg(id[c], x, a) : x \in Positions, a \in { None, Some("jump") } }

\* Every player is connected, and some of them have joined the first room.
InitRoom == InitFanout /\ DOMAIN connections = Players

\* Members of one room that queue up to MaxQueued updates at a recipient.
NextFifo ==
    \/ \E c \in Conns : \E m \in FifoInputs(c) : PlayerUpdate(c, m)
    \/ \E c \in Conns : BroadcastWithin(c, MaxQueued)
    \/ \E c \in Conns : SendMessage(c)

SpecFifo == InitRoom /\ [][NextFifo]_vars

\* ---------------------------------------------------------- lock by lock
\* The holder of the AppState.connections mutex (0 = free): a broadcast inside
\* its for loop, or a ws_route between lock() and the end of its block.
DirLock ==
    IF \E c \in Conns : pc[c] = "fanout" \/ status[c] = "storing"
    THEN CHOOSE c \in Conns : pc[c] = "fanout" \/ status[c] = "storing"
    ELSE 0

\* ws_route up to ws::start_with_addr: the session exists, the directory does
\* not know it yet.
RouteStart(c, p) ==
    /\ status[c] = "none"
    /\ \A d \in Conns : d < c => status[d] # "none"
    /\ \A q \in Players : q < p => \E d \in Conns : id[d] = q
    /\ status' = [ status EXCEPT ![c] = "starting" ]
    /\ id' = [ id EXCEPT ![c] = p ]
    /\ ev' = Event(c, None, <<>>)
    /\ UNCHANGED << rooms, player_to_room, connections, hb, pc, cur, mailbox,
                    regLock, ncreated >>

\* ws_route: app_state.connections.lock().
RouteLock(c) ==
    /\ status[c] = "starting"
    /\ DirLock = 0
    /\ status' = [ status EXCEPT ![c] = "storing" ]
    /\ ev' = Event(c, None, <<>>)
    /\ UNCHANGED << rooms, player_to_room, connections, id, hb, pc, cur, mailbox,
                    regLock, ncreated >>

\* ws_route: connections.insert(player_id, addr), and the guard is dropped.
RouteStore(c) ==
    /\ status[c] = "storing"
    /\ connections' = [ q \in (DOMAIN connections) \cup {id[c]} |->
                          IF q = id[c] THEN c ELSE connections[q] ]
    /\ status' = [ status EXCEPT ![c] = "active" ]
    /\ ev' = Event(c, None, <<>>)
    /\ UNCHANGED << rooms, player_to_room, id, hb, pc, cur, mailbox, regLock,
                    ncreated >>

\* broadcast_to_room: self.app_state.sessions.lock().
FanoutLockSessions(c) ==
    /\ status[c] = "active"
    /\ pc[c] = "update"
    /\ regLock = 0
    /\ \A d \in Conns : Len(mailbox[d]) < MaxMailbox
    /\ regLock' = c
    /\ pc' = [ pc EXCEPT ![c] = "locked" ]
    /\ ev' = Event(c, None, <<>>)
    /\ UNCHANGED << rooms, player_to_room, connections, status, id, hb, cur,
                    mailbox, ncreated >>

\* broadcast_to_room: rooms.get(room_id), then self.app_state.connections.lock()
\* inside the sessions guard; with no such room both scopes end at once.
FanoutLockConnections(c) ==
    /\ pc[c] = "locked"
    /\ IF Unwrap(cur[c]).room_id \in DOMAIN rooms
       THEN /\ DirLock = 0
            /\ pc' = [ pc EXCEPT ![c] = "fanout" ]
            /\ UNCHANGED << cur, regLock >>
       ELSE /\ pc' = [ pc EXCEPT ![c] = "idle" ]
            /\ cur' = [ cur EXCEPT ![c] = None ]
            /\ regLock' = 0
    /\ ev' = Event(c, None, <<>>)
    /\ UNCHANGED << rooms, player_to_room, connections, status, id, hb, mailbox,
                    ncreated >>

\* broadcast_to_room: the for loop of do_send calls; both guards are dropped
\* at the end of the function.
FanoutSend(c) ==
    /\ pc[c] = "fanout"
    /\ LET l == Unwrap(cur[c])
           sends == broadcast_to_room(rooms, connections, id[c], l.room_id,
                                      update_msg(id[c], l.msg))
       IN  /\ mailbox' = do_send(mailbox, status, sends)
           /\ ev' = [ Event(c, Some(l.msg), <<>>) EXCEPT !.sent = sends,
                                                        !.room = Some(l.room_id) ]
    /\ pc' = [ pc EXCEPT ![c] = "idle" ]
    /\ cur' = [ cur EXCEPT ![c] = None ]
    /\ regLock' = 0
    /\ UNCHANGED << rooms, player_to_room, connections, status, id, hb, ncreated >>

\* Connections, Joins and position updates, one lock operation per step.
NextLocks ==
    \/ \E c \in Conns : RouteStart(c, FreshPlayer(c))
    \/ \E c \in Conns : RouteLock(c)
    \/ \E c \in Conns : RouteStore(c)
    \/ \E c \in Conns, m \in JoinBasicInputs : Join(c, m)
    \/ \E c \in Conns : \E m \in PlayerUpdateInputs(c) : PlayerUpdateWithin(c, m, MaxHandlers)
    \/ \E c \in Conns : FanoutLockSessions(c)
    \/ \E c \in Conns : FanoutLockConnections(c)
    \/ \E c \in Conns : FanoutSend(c)
    \/ \E c \in Conns : SendMessage(c)

SpecLocks == Init /\ [][NextLocks]_vars

\* ------------------------------------------------------------ observations
IsJoin(e) == IsSome(e.recv) /\ Unwrap(e.recv).type = "Join"

\* The latest step finished a broadcast_to_room call.
IsBroadcast(e) ==
    IsSome(e.recv) /\ Unwrap(e.recv).type = "PlayerUpdate" /\ IsSome(e.room)

\* How many of the do_send calls went to session c.
SentTo(e, c) == Cardinality({ i \in 1..Len(e.sent) : e.sent[i].to = c })

\* The payload of the one text frame the step wrote.
ReplyPayload(e) == e.out[1].body.payload

\* ------------------------------------------------------------------ claims
\* C1: in every reachable state player_to_room[p] = R exactly when the member
\* list of room R contains p.
C1_MappingConsistent ==
    \A p \in Players : \A r \in DOMAIN rooms :
        (p \in DOMAIN player_to_room /\ player_to_room[p] = r) <=> Contains(rooms[r], p)

\* C2: once a session has stopped, its player is in no member list and not in
\* player_to_room, and no broadcast_to_room sends to its address.
C2_StoppedSessionGone ==
    \A c \in Conns : status[c] = "stopped" =>
        /\ \A r \in DOMAIN rooms : ~Contains(rooms[r], id[c])
        /\ id[c] \notin DOMAIN player_to_room
        /\ SentTo(ev, c) = 0

\* C3: every create_room call that returns yields an id that was not a key of
\* rooms before the call; rooms only grows, by exactly the created id, so the
\* number of rooms equals the number of creations.
C3_CreatedIdsFresh ==
    [][ /\ DOMAIN rooms \subseteq DOMAIN rooms'
        /\ DOMAIN rooms' # DOMAIN rooms => IsSome(ev'.created)
        /\ IsSome(ev'.created) =>
             /\ Unwrap(ev'.created) \notin DOMAIN rooms
             /\ DOMAIN rooms' = DOMAIN rooms \cup { Unwrap(ev'.created) }
             /\ ncreated' = ncreated + 1
             /\ Cardinality(DOMAIN rooms') = ncreated' ]_vars

\* C3 witness: a second room was just created by a session other than the one
\* that created the first.
C3_Witness ==
      /\ IsSome(ev.created)
      /\ ncreated = 2
      /\ \E r \in DOMAIN rooms :
            /\ r # Unwrap(ev.created)
            /\ rooms[r] # <<>>
            /\ rooms[r][1] # id[ev.conn]

\* C4: a PlayerUpdate broadcast by session A is sent exactly once to the
\* address of every other member of A's room, to nobody else and never to A;
\* every send carries A's update and is queued at each running recipient.
C4_UpdateReachesOthersOnce ==
    IsBroadcast(ev) =>
        LET a == ev.conn
            members == rooms[Unwrap(ev.room)]
            update == ToJson(PlayerUpdateMsg(id[a], Unwrap(ev.recv).position,
                                             Unwrap(ev.recv).action))
        IN  /\ SentTo(ev, a) = 0
            /\ \A p \in DOMAIN connections :
                 SentTo(ev, connections[p]) =
                    IF Contains(members, p) /\ p # id[a] THEN 1 ELSE 0
            /\ \A i \in 1..Len(ev.sent) :
                 /\ ev.sent[i].msg = update
                 /\ \E p \in DOMAIN connections : ev.sent[i].to = connections[p]
                 /\ status[ev.sent[i].to] = "active" =>
                      /\ mailbox[ev.sent[i].to] # <<>>
                      /\ mailbox[ev.sent[i].to][Len(mailbox[ev.sent[i].to])] = update

\* C4 witness: A broadcast in a room of three members and the two others,
\* both running, were each sent the update.
C4_Witness ==
    /\ IsBroadcast(ev)
    /\ Len(rooms[Unwrap(ev.room)]) = 3
    /\ Contains(rooms[Unwrap(ev.room)], id[ev.conn])
    /\ Len(ev.sent) = 2
    /\ \A i \in 1..2 : status[ev.sent[i].to] = "active" /\ mailbox[ev.sent[i].to] # <<>>

\* The case of C5: the Join e, received in a state with registry rs, has no
\* create_room flag (absent or false) and names a room that rs does not hold.
JoinMiss(e, rs) ==
    /\ IsJoin(e)
    /\ ~UnwrapOr(Unwrap(e.recv).create_room, FALSE)
    /\ IsSome(Unwrap(e.recv).room_id)
    /\ Unwrap(Unwrap(e.recv).room_id) \notin DOMAIN rs

\* C5 as stated: such a Join is answered with a newly created room that the
\* sender has joined and whose id differs from the requested id.
C5_ReplyDiffersFromRequest ==
    [][ (JoinMiss(ev', rooms) /\ ev'.out # <<>>) =>
          /\ IsSome(ev'.created)
          /\ ReplyPayload(ev').room_id = ev'.created
          /\ Contains(rooms'[Unwrap(ev'.created)], id[ev'.conn])
          /\ ev'.created # Unwrap(ev'.recv).room_id ]_vars

\* C5 amended: such a Join is answered with a room created by this very
\* request, which the sender has joined; the id differs from the requested one
\* whenever the requested id is not one the generator can draw.
C5_FallbackCreates ==
    [][ (JoinMiss(ev', rooms) /\ ev'.out # <<>>) =>
          /\ IsSome(ev'.created)
          /\ Unwrap(ev'.created) \notin DOMAIN rooms
          /\ ReplyPayload(ev').room_id = ev'.created
          /\ Contains(rooms'[Unwrap(ev'.created)], id[ev'.conn])
          /\ player_to_room'[id[ev'.conn]] = Unwrap(ev'.created)
          /\ (Unwrap(Unwrap(ev'.recv).room_id) \notin { Format04(n) : n \in GenRange }
                => ev'.created # Unwrap(ev'.recv).room_id) ]_vars

\* C5 witness: a Join with no flag named the id "0", which no room has, and was
\* answered with a created room.
C5_Witness ==
      /\ IsJoin(ev)
      /\ ~UnwrapOr(Unwrap(ev.recv).create_room, FALSE)
      /\ Unwrap(ev.recv).room_id = Some(<<0>>)
      /\ IsSome(ev.created)
      /\ ev.out # <<>>
      /\ ReplyPayload(ev).room_id # Unwrap(ev.recv).room_id

\* C6: a Join that names the room its sender is already a member of resolves
\* to that room and leaves the member lists and the reverse mapping unchanged.
C6_JoinIdempotent ==
    [][ ( /\ IsJoin(ev')
          /\ ~UnwrapOr(Unwrap(ev'.recv).create_room, FALSE)
          /\ IsSome(Unwrap(ev'.recv).room_id)
          /\ Unwrap(Unwrap(ev'.recv).room_id) \in DOMAIN rooms
          /\ Contains(rooms[Unwrap(Unwrap(ev'.recv).room_id)], id[ev'.conn]) ) =>
          /\ ev'.out # <<>>
          /\ ReplyPayload(ev').room_id = Unwrap(ev'.recv).room_id
          /\ rooms' = rooms
          /\ player_to_room' = player_to_room ]_vars

\* C7: every PlayerUpdate that broadcast_to_room sends carries the id of the
\* session that sent it.
C7_SenderIdAuthoritative ==
    \A i \in 1..Len(ev.sent) :
        ev.sent[i].msg.type = "PlayerUpdate" =>
            ev.sent[i].msg.payload.player_id = id[ev.conn]

\* C7 witness: an update whose payload claimed another player's id was sent on
\* to a room member.
C7_Witness ==
    /\ IsBroadcast(ev)
    /\ ev.sent # <<>>
    /\ Unwrap(ev.recv).player_id # id[ev.conn]

\* C8: every Join is answered by exactly one Join reply; the sender is a member
\* of the room the reply names, is mapped to it, and players_count is the
\* length of that room's member list.
C8_JoinAlwaysReplies ==
    IsJoin(ev) =>
        /\ Len(ev.out) = 1
        /\ ev.out[1].op = "text"
        /\ ev.out[1].body.type = "Join"
        /\ ReplyPayload(ev).player_id = Some(id[ev.conn])
        /\ IsSome(ReplyPayload(ev).room_id)
        /\ LET r == Unwrap(ReplyPayload(ev).room_id)
           IN  /\ r \in DOMAIN rooms
               /\ Contains(rooms[r], id[ev.conn])
               /\ get_player_room(player_to_room, id[ev.conn]) = Some(r)
               /\ ReplyPayload(ev).players_count = Len(rooms[r])

\* C9: the reply to a Join with create_room = true names a room that did not
\* exist before the request, whatever room_id the payload carried, and the
\* sender is its only member: players_count = 1.
C9_CreateIsFreshAndSolo ==
    [][ ( /\ IsJoin(ev')
          /\ UnwrapOr(Unwrap(ev'.recv).create_room, FALSE)
          /\ ev'.out # <<>> ) =>
          /\ IsSome(ReplyPayload(ev').room_id)
          /\ LET r == Unwrap(ReplyPayload(ev').room_id)
             IN  /\ r \notin DOMAIN rooms
                 /\ r \in DOMAIN rooms'
                 /\ rooms'[r] = << id[ev'.conn] >>
                 /\ ReplyPayload(ev').players_count = 1 ]_vars

\* C9 witness: a create_room = true Join that also named another session's
\* occupied room was answered with a different room and players_count 1.
C9_Witness ==
      /\ IsJoin(ev)
      /\ Unwrap(ev.recv).create_room = Some(TRUE)
      /\ IsSome(Unwrap(ev.recv).room_id)
      /\ ev.out # <<>>
      /\ LET q == Unwrap(Unwrap(ev.recv).room_id)
         IN  /\ q \in DOMAIN rooms
             /\ rooms[q] # <<>>
             /\ ~Contains(rooms[q], id[ev.conn])
             /\ ReplyPayload(ev).room_id # Some(q)
             /\ ReplyPayload(ev).players_count = 1

\* C10: the Connection Directory never holds the address of a stopped session.
C10_NoStaleHandle ==
    \A p \in DOMAIN connections : status[connections[p]] = "active"

ReceivedType(e, t) == IsSome(e.recv) /\ Unwrap(e.recv).type = t

\* A member of the room that has a live session behind its directory entry.
LiveHandle(p) == p \in DOMAIN connections /\ status[connections[p]] = "active"

\* C11: after a session handled Leave, its player is in no member list and
\* player_to_room has no entry for it.
C11_LeaveRemovesSender ==
    ReceivedType(ev, "Leave") =>
        /\ id[ev.conn] \notin DOMAIN player_to_room
        /\ \A r \in DOMAIN rooms : ~Contains(rooms[r], id[ev.conn])

\* C13: a Chat from a session in a room is sent to every other member of the
\* room that has a live handle.
C13_ChatReachesRoom ==
    (ReceivedType(ev, "Chat") /\ id[ev.conn] \in DOMAIN player_to_room) =>
        \A i \in 1..Len(rooms[player_to_room[id[ev.conn]]]) :
            LET q == rooms[player_to_room[id[ev.conn]]][i]
            IN  (q # id[ev.conn] /\ LiveHandle(q)) => SentTo(ev, connections[q]) = 1

\* C16: a text that fails to decode gets exactly one Error frame written to
\* the sender and nothing else: no do_send, the session stays as it was, and
\* rooms, player_to_room, connections and the mailboxes are unchanged.
C16_DecodeErrorRepliesOnce ==
    [][ ReceivedType(ev', "Text") =>
          /\ Len(ev'.out) = 1
          /\ ev'.out[1].op = "text"
          /\ ev'.out[1].body.type = "Error"
          /\ ev'.sent = <<>>
          /\ UNCHANGED << rooms, player_to_room, connections, status, pc, mailbox >> ]_vars

C16_Witness ==
    /\ ReceivedType(ev, "Text")
    /\ Unwrap(ev.recv).text.type = "Chat"
    /\ status[ev.conn] = "active"
    /\ id[ev.conn] \in DOMAIN player_to_room
    /\ ev.out = << TextFrame(ToJson(ErrorMsg(InvalidFormat))) >>

\* The latest step of session c was a heartbeat tick that stopped it.
TimedOut(c) == status[c] = "active" /\ status'[c] = "stopped" /\ ev'.out = <<>>

C14_UpdateWithoutRoomDropped ==
    [][ \A c \in Conns :
          (/\ ev'.conn = c
           /\ ReceivedType(ev', "PlayerUpdate")
           /\ id[c] \notin DOMAIN player_to_room) =>
              /\ ev'.out = <<>>
              /\ ev'.sent = <<>>
              /\ UNCHANGED << rooms, player_to_room, connections, status, pc, mailbox >> ]_vars

C14_Witness ==
    /\ ReceivedType(ev, "PlayerUpdate")
    /\ status[ev.conn] = "active"
    /\ id[ev.conn] \notin DOMAIN player_to_room
    /\ \E r \in DOMAIN rooms : Len(rooms[r]) = 2
    /\ ev.sent = <<>>
    /\ ev.out = <<>>

\* C18: every session a broadcast sends to belongs to a player that
\* player_to_room currently maps to the room of the broadcast.
C18_RecipientsInSendersRoom ==
    IsBroadcast(ev) =>
        \A i \in 1..Len(ev.sent) :
            LET q == id[ev.sent[i].to]
            IN  q \in DOMAIN player_to_room /\ player_to_room[q] = Unwrap(ev.room)

\* The members of the broadcast's room the sender is to reach: everyone but
\* the sender that the directory has an address for.
Reachable(e) ==
    { q \in { rooms[Unwrap(e.room)][i] : i \in 1..Len(rooms[Unwrap(e.room)]) } :
        q # id[e.conn] /\ q \in DOMAIN connections }

\* C15: a broadcast over a room with a member the directory has no address
\* for sends exactly once to every other non-sender member that has one, and
\* to nobody else, wherever the missing member stands in the list.
C15_MissingHandleSkipped ==
    IsBroadcast(ev) =>
        /\ \A q \in Reachable(ev) : SentTo(ev, connections[q]) = 1
        /\ Len(ev.sent) = Cardinality(Reachable(ev))

C15_Witness ==
    /\ IsBroadcast(ev)
    /\ LET players == rooms[Unwrap(ev.room)]
       IN  /\ Len(players) = 3
           /\ players[1] \notin DOMAIN connections
           /\ players[2] = id[ev.conn]
           /\ players[3] \in DOMAIN connections
           /\ SentTo(ev, connections[players[3]]) = 1

\* C17: a mailbox changes only by a broadcast appending its message behind
\* everything queued, or by the session forwarding the oldest queued message
\* to its socket: each recipient's socket gets the messages in the order the
\* broadcasts sent them, whoever the senders were.
C17_FifoPerRecipient ==
    [][ \A c \in Conns :
          \/ mailbox'[c] = mailbox[c]
          \/ /\ IsBroadcast(ev')
             /\ \E i \in 1..Len(ev'.sent) :
                  /\ ev'.sent[i].to = c
                  /\ mailbox'[c] = Append(mailbox[c], ev'.sent[i].msg)
          \/ /\ ev'.conn = c
             /\ mailbox[c] # <<>>
             /\ ev'.out = << TextFrame(Head(mailbox[c])) >>
             /\ mailbox'[c] = Tail(mailbox[c]) ]_vars

C17_Witness ==
    /\ ev.conn \in Conns
    /\ Len(ev.out) = 1
    /\ Len(mailbox[ev.conn]) = 1
    /\ ev.out[1].body.type = "PlayerUpdate"
    /\ ev.out[1].body.payload.player_id # mailbox[ev.conn][1].payload.player_id
    /\ \E d \in Conns :
         /\ d # ev.conn
         /\ Len(mailbox[d]) = 2
         /\ mailbox[d][1].payload.player_id = mailbox[d][2].payload.player_id
         /\ mailbox[d][1].payload.action # mailbox[d][2].payload.action

\* The mutex session c is about to lock, if its next step is a lock().
WantsSessions(c) == status[c] = "active" /\ pc[c] = "update"

WantsConnections(c) == pc[c] = "locked" \/ status[c] = "starting"

HoldsConnections(c) == pc[c] = "fanout" \/ status[c] = "storing"

\* c stands at a lock() of a mutex that is held.
Blocked(c) ==
    \/ WantsSessions(c) /\ regLock # 0
    \/ WantsConnections(c) /\ DirLock # 0

\* C19: the connections mutex is only taken by one that holds the sessions
\* mutex or no mutex and is then held without asking for another; nobody asks
\* for the sessions mutex while holding it; so whenever someone is blocked at
\* a lock(), some holder of a mutex is not blocked.
C19_NoLockDeadlock ==
    /\ Cardinality({ c \in Conns : HoldsConnections(c) }) <= 1
    /\ \A c \in Conns :
         /\ HoldsConnections(c) => ~WantsSessions(c) /\ ~WantsConnections(c)
         /\ pc[c] = "fanout" => regLock = c
         /\ regLock = c => ~WantsSessions(c)
         /\ Blocked(c) =>
               \E d \in Conns : (regLock = d \/ HoldsConnections(d)) /\ ~Blocked(d)

C19_Witness ==
    \E a, b, c \in Conns :
        /\ regLock = a /\ pc[a] = "locked"
        /\ status[c] = "storing"
        /\ WantsSessions(b)
        /\ Blocked(a) /\ Blocked(b) /\ ~Blocked(c)

\* The ids of the generator's range that are not keys of rooms.
FreeIds == { Format04(n) : n \in GenRange } \ DOMAIN rooms

====
